---- MODULE Spec2Model ----
(***************************************************************************)
(* State-machine model of the conversational gateway in backend/main.py:   *)
(* the socket session registry (websocket_endpoint), the streaming fan-out *)
(* (receive_stream_update), the content de-duplication and response cache  *)
(* of the routed HTTP endpoint (n8n_main_request, ConversationalHandler),  *)
(* the agent matcher (AgentMatcher) and the bounded orchestrator           *)
(* (full_website_analysis).                                                *)
(***************************************************************************)
EXTENDS Integers, Sequences, FiniteSets, TLC

(***************************************************************************)
(* Bounds of the model.                                                    *)
(***************************************************************************)
\* consecutive business frames with one requestId followed on a connection
MaxRun == 2
\* processing tasks running at once for one connection and requestId
MaxTasks == 2
\* progress events received by receive_stream_update
MaxUpdates == 2
\* receive_stream_update calls suspended between their two sends
MaxInflight == 1
\* advances of the clock
MaxTicks == 2
\* n8n_main_request calls waiting for the workflow engine at once
MaxPending == 1
\* handle_message calls awaiting process_message at one time
MaxSuspended == 2
\* rows the similarity service returns to one find_best_agents call
MaxRows == 2

\* physical socket connections: A and B are opened on /ws/u1/s1, so both
\* get the connection_id u1_s1; user u2 never connects
Conns == {"A", "B"}
NoConn == "none"
None == "none"

UserOf(c) == "u1"
SessionOf(c) == "s1"
ConnectionId(c) == <<UserOf(c), SessionOf(c)>>
UserIds == {"u1", "u2"}
SessionIds == {"s1"}
ConnectionIds == UserIds \X SessionIds

\* requestId values a client puts in its business frames
RequestIds == {"r1"}
NoRid == "none"

\* shapes of an inbound socket payload that is no business frame, by the
\* branch of the receive loop they take
OtherKinds == {"malformed", "nonobject", "ping", "pong", "empty"}

VARIABLES
    pc,                 \* position of each connection's handler
    sock,               \* state of the peer of each socket
    active_connections, \* registry: connection_id -> socket
    active_requests,    \* process-wide set of request ids being dispatched
    ka,                 \* state of each connection's send_ping task
    cur,                \* request id of the frame a handler is acknowledging
    pings,              \* ping frames sent on each socket, counted modulo 2
    tasks,              \* running processing tasks per connection and id
    run,                \* current run of consecutive business frames
    exitCause,          \* why a handler left its receive loop
    lastFrame           \* the latest undecodable frame or read timeout, when
                        \* no other frame was read since

VARIABLES
    streaming_sessions, \* (user_id, request_id) -> log of updates and flag
    hs,                 \* receive_stream_update calls awaiting their 2nd send,
                        \* with whether their socket carried no frame since
    fin                 \* the receive_stream_update call that returned last

streamVars == <<streaming_sessions, hs, fin>>

VARIABLES
    now,                \* the clock, in seconds
    ticks,              \* advances of the clock so far
    request_cache,      \* content-dedup map: request_key -> time last accepted
    responses,          \* ConversationalHandler._cache: request_id -> entry
    pending,            \* n8n_main_request calls suspended in an upstream call
    lastCall,           \* the n8n_main_request call that arrived last
    entered             \* per (session, message, agent): the latest call with
                        \* that content that was entered in the dedup map

clockVars == <<now, ticks>>
routerVars == <<request_cache, responses, pending, lastCall, entered>>

VARIABLES
    suspended,          \* handle_message calls awaiting process_message
    lastHandle,         \* the handle_message call made last
    lastProcess,        \* the process_message call that ended last
    engineEnds          \* per request_id: when the workflow engine failed
                        \* last for it, and how its latest call ended

handlerVars == <<suspended, lastHandle, lastProcess, engineEnds>>

VARIABLES
    match_cache,        \* AgentMatcher._cache: cache_key -> entry
    lastMatch,          \* the check_agent_match call made last
    computed            \* per (agent, query): the latest call for it that
                        \* computed and cached its result

matcherVars == <<match_cache, lastMatch, computed>>

VARIABLES
    best_cache,         \* AgentMatcher._cache, the best_agents_ keys
    lastBest            \* the find_best_agents call made last

bestVars == <<best_cache, lastBest>>

VARIABLES
    phase,              \* position of the full_website_analysis handler
    sub,                \* state of each of its three subtasks
    atDeadline,         \* the subtasks as the deadline found them
    results             \* what the handler returned

orchVars == <<phase, sub, atDeadline, results>>

VARIABLES
    bgPhase,            \* position of run_all_operations
    bgSub,              \* state of each of its three subtasks
    awaiting,           \* index of the subtask run_all_operations awaits
    background_results, \* the record of the background task
    lastPoll            \* what get_background_task_result returned last

bgVars == <<bgPhase, bgSub, awaiting, background_results, lastPoll>>

wsVars == <<pc, sock, active_connections, active_requests, ka, cur, pings,
            tasks, run, exitCause, lastFrame>>

vars == <<wsVars, streamVars, clockVars, routerVars, handlerVars, matcherVars,
          bestVars, orchVars, bgVars>>

\* what the actions of one component leave alone
exceptWs == <<streaming_sessions, fin, clockVars, routerVars, handlerVars, matcherVars, bestVars, orchVars, bgVars>>
exceptStream == <<wsVars, clockVars, routerVars, handlerVars, matcherVars, bestVars, orchVars, bgVars>>
exceptRouter == <<wsVars, streamVars, clockVars, handlerVars, matcherVars, bestVars, orchVars, bgVars>>
exceptMatcher == <<wsVars, streamVars, clockVars, routerVars, handlerVars, bestVars, orchVars, bgVars>>
exceptOrch == <<wsVars, streamVars, clockVars, routerVars, handlerVars, matcherVars, bestVars, bgVars>>
exceptBest == <<wsVars, streamVars, clockVars, routerVars, handlerVars, matcherVars, orchVars, bgVars>>
exceptClock == <<wsVars, streamVars, routerVars, handlerVars, matcherVars, bestVars, orchVars, bgVars>>
\* handle_message works on the response cache of the router and on nothing
\* else of it
exceptHandler == <<wsVars, streamVars, clockVars, request_cache, pending, lastCall, entered,
                   matcherVars, bestVars, orchVars, bgVars>>
exceptBg == <<wsVars, streamVars, clockVars, routerVars, handlerVars, matcherVars, bestVars,
              orchVars>>

NoRun == [rid |-> NoRid, n |-> 0, acks |-> 0, disp |-> 0]
NoFrame == [c |-> NoConn, what |-> "none"]

(***************************************************************************)
(* Socket gateway: websocket_endpoint                                      *)
(***************************************************************************)
WsInit ==
    /\ pc = [c \in Conns |-> "new"]
    /\ sock = [c \in Conns |-> "open"]
    /\ active_connections = [k \in ConnectionIds |-> NoConn]
    /\ active_requests = {}
    /\ ka = [c \in Conns |-> "none"]
    /\ cur = [c \in Conns |-> NoRid]
    /\ pings = [c \in Conns |-> 0]
    /\ tasks = [c \in Conns |-> [r \in RequestIds |-> 0]]
    /\ run = [c \in Conns |-> NoRun]
    /\ exitCause = [c \in Conns |-> None]
    /\ lastFrame = NoFrame

\* websocket.send_json succeeds only towards a peer that is still there
CanSendAlways(c) == TRUE

CanSendUnlessClosed(c) == sock[c] # "closed"

CanSend(c) == sock[c] = "open"

\* a ping frame goes out on socket c
SendPing(c) == pings' = [pings EXCEPT ![c] = (@ + 1) % 2]

\* the finally block: ping_task.cancel(), then the registry entry under the
\* connection's id is deleted if there is one
CancelPingSkip(k) == k

CancelPing(k) == IF k = "sleeping" THEN "cancelled" ELSE k

UnregisterKeep(reg, c) == reg

Unregister(reg, c) == [reg EXCEPT ![ConnectionId(c)] = NoConn]

\* a frame goes out on socket c while receive_stream_update calls are
\* suspended between their two sends on it
Overtaken(calls, c) ==
    {IF h.ws = c THEN [h EXCEPT !.clean = FALSE] ELSE h : h \in calls}

\* the finally block names no processing task: the tasks the connection
\* dispatched are neither cancelled nor awaited
TasksCancelled(t, c) == [t EXCEPT ![c] = [r \in RequestIds |-> 0]]

TasksAfterTeardown(t, c) == t

Teardown(c, cause) ==
    /\ ka' = [ka EXCEPT ![c] = CancelPing(ka[c])]
    /\ tasks' = TasksAfterTeardown(tasks, c)
    /\ active_connections' = Unregister(active_connections, c)
    /\ pc' = [pc EXCEPT ![c] = "closed"]
    /\ sock' = [sock EXCEPT ![c] = "closed"]
    /\ exitCause' = [exitCause EXCEPT ![c] = cause]

\* accept, register under connection_id, start the ping task
Accept(c) ==
    /\ pc[c] = "new"
    /\ pc' = [pc EXCEPT ![c] = "opening"]
    /\ active_connections' = [active_connections EXCEPT ![ConnectionId(c)] = c]
    /\ ka' = [ka EXCEPT ![c] = "sleeping"]
    /\ UNCHANGED <<sock, active_requests, cur, pings, tasks, run, exitCause>>
    /\ UNCHANGED lastFrame
    /\ UNCHANGED hs
    /\ UNCHANGED exceptWs

\* the initial connection_status frame
SendConnected(c) ==
    /\ pc[c] = "opening"
    /\ IF CanSend(c)
       THEN /\ pc' = [pc EXCEPT ![c] = "loop"]
            /\ UNCHANGED <<sock, active_connections, ka, tasks, exitCause>>
       ELSE Teardown(c, "connected_send_failed")
    /\ UNCHANGED <<active_requests, cur, pings, run>>
    /\ UNCHANGED lastFrame
    /\ hs' = IF CanSend(c) THEN Overtaken(hs, c) ELSE hs
    /\ UNCHANGED exceptWs

\* what the receive loop does with a payload that is no business frame:
\* valid JSON that is no object makes message_data.get raise, which the
\* outer handler logs before the finally block runs; a ping whose pong
\* cannot be sent ends the same way; an undecodable payload
\* (JSONDecodeError), an answered ping, a pong, an empty message and a
\* connection_status are skipped
OnFrameStrict(kind, canSend) ==
    IF kind \in {"nonobject", "malformed"} THEN "exception"
    ELSE IF kind = "ping" /\ ~canSend THEN "pong_send_failed"
    ELSE "continue"

OnFrame(kind, canSend) ==
    IF kind = "nonobject" THEN "exception"
    ELSE IF kind = "ping" /\ ~canSend THEN "pong_send_failed"
    ELSE "continue"

\* one iteration of the receive loop for a control, empty or undecodable
\* payload (json.loads, then the type and message tests)
ReceiveOther(c, kind) ==
    /\ pc[c] = "loop"
    /\ sock[c] # "closed"
    /\ run' = [run EXCEPT ![c] = NoRun]
    /\ IF OnFrame(kind, CanSend(c)) = "continue"
       THEN UNCHANGED <<pc, sock, active_connections, ka, tasks, exitCause>>
       ELSE Teardown(c, OnFrame(kind, CanSend(c)))
    /\ UNCHANGED <<active_requests, cur, pings>>
    /\ lastFrame' = IF kind = "malformed" THEN [c |-> c, what |-> "malformed"]
                    ELSE NoFrame
    /\ hs' = IF kind = "ping" /\ CanSend(c) THEN Overtaken(hs, c) ELSE hs
    /\ UNCHANGED exceptWs

\* one iteration of the receive loop for a business frame: the in-flight
\* test, then the id is added and the handler awaits the ack send
ReceiveBusiness(c, rid) ==
    /\ pc[c] = "loop"
    /\ sock[c] # "closed"
    /\ tasks[c][rid] < MaxTasks
    /\ run[c].rid = rid => run[c].n < MaxRun
    /\ run' = [run EXCEPT ![c] =
                  IF run[c].rid = rid THEN [@ EXCEPT !.n = @ + 1]
                  ELSE [rid |-> rid, n |-> 1, acks |-> 0, disp |-> 0]]
    /\ IF rid \in active_requests
       THEN \* already being processed: skip
            UNCHANGED <<pc, active_requests, cur>>
       ELSE /\ active_requests' = active_requests \cup {rid}
            /\ cur' = [cur EXCEPT ![c] = rid]
            /\ pc' = [pc EXCEPT ![c] = "acking"]
    /\ UNCHANGED <<sock, active_connections, ka, pings, tasks, exitCause>>
    /\ lastFrame' = NoFrame
    /\ UNCHANGED hs
    /\ UNCHANGED exceptWs

\* asyncio.create_task(process_n8n_request_async(...))
Dispatch(t, c, rid) == [t EXCEPT ![c][rid] = @ + 1]

\* the ack frame is sent, the processing task is created, and the finally
\* clause discards the request id; a failed send skips the dispatch and
\* leaves the loop through the outer handlers
AckAndDispatch(c) ==
    /\ pc[c] = "acking"
    /\ active_requests' = active_requests \ {cur[c]}
    /\ cur' = [cur EXCEPT ![c] = NoRid]
    /\ IF CanSend(c)
       THEN /\ tasks' = Dispatch(tasks, c, cur[c])
            /\ run' = [run EXCEPT ![c] = [@ EXCEPT !.acks = @ + 1, !.disp = @ + 1]]
            /\ pc' = [pc EXCEPT ![c] = "loop"]
            /\ UNCHANGED <<sock, active_connections, ka, exitCause>>
       ELSE /\ Teardown(c, "ack_send_failed")
            /\ UNCHANGED run
    /\ UNCHANGED pings
    /\ UNCHANGED lastFrame
    /\ hs' = IF CanSend(c) THEN Overtaken(hs, c) ELSE hs
    /\ UNCHANGED exceptWs

\* wait_for(receive_text, 60) times out: probe ping; a failed probe breaks
\* out of the loop
IdleTimeout(c) ==
    /\ pc[c] = "loop"
    /\ sock[c] \in {"open", "dead"}
    /\ IF CanSend(c)
       THEN /\ SendPing(c)
            /\ UNCHANGED <<pc, sock, active_connections, ka, tasks, exitCause>>
       ELSE /\ Teardown(c, "dead_peer")
            /\ UNCHANGED pings
    /\ UNCHANGED <<active_requests, cur, run>>
    /\ lastFrame' = [c |-> c, what |-> "idle"]
    /\ hs' = IF CanSend(c) THEN Overtaken(hs, c) ELSE hs
    /\ UNCHANGED exceptWs

\* receive_text raises WebSocketDisconnect
ClientDisconnect(c) ==
    /\ pc[c] = "loop"
    /\ sock[c] = "gone"
    /\ Teardown(c, "disconnect")
    /\ UNCHANGED <<active_requests, cur, pings, run>>
    /\ UNCHANGED lastFrame
    /\ UNCHANGED hs
    /\ UNCHANGED exceptWs

\* the test both loops of send_ping make: connection_id in active_connections
Registered(c) == active_connections[ConnectionId(c)] # NoConn

\* send_ping wakes from its 30 s sleep: it pings its own socket if the
\* test holds, ends on a failed send, and ends when the while condition
\* finds the id no longer registered
KeepaliveWake(c) ==
    /\ ka[c] = "sleeping"
    /\ IF Registered(c)
       THEN IF CanSend(c)
            THEN SendPing(c) /\ UNCHANGED ka
            ELSE ka' = [ka EXCEPT ![c] = "exited"] /\ UNCHANGED pings
       ELSE ka' = [ka EXCEPT ![c] = "exited"] /\ UNCHANGED pings
    /\ UNCHANGED <<pc, sock, active_connections, active_requests, cur, tasks,
                   run, exitCause>>
    /\ UNCHANGED lastFrame
    /\ hs' = IF Registered(c) /\ CanSend(c) THEN Overtaken(hs, c) ELSE hs
    /\ UNCHANGED exceptWs

\* the peer goes away: silently (reads time out, writes fail) or with a
\* close handshake (the next read raises WebSocketDisconnect)
PeerLost(c, how) ==
    /\ sock[c] = "open"
    /\ pc[c] \in {"opening", "loop", "acking"}
    /\ sock' = [sock EXCEPT ![c] = how]
    /\ UNCHANGED <<pc, active_connections, active_requests, ka, cur, pings,
                   tasks, run, exitCause>>
    /\ UNCHANGED lastFrame
    /\ UNCHANGED hs
    /\ UNCHANGED exceptWs

\* a dispatched processing task runs to its end
TaskFinish(c, rid) ==
    /\ tasks[c][rid] > 0
    /\ tasks' = [tasks EXCEPT ![c][rid] = @ - 1]
    /\ UNCHANGED <<pc, sock, active_connections, active_requests, ka, cur,
                   pings, run, exitCause>>
    /\ UNCHANGED lastFrame
    /\ UNCHANGED hs
    /\ UNCHANGED exceptWs

WsNext ==
    \/ \E c \in Conns : Accept(c)
    \/ \E c \in Conns : SendConnected(c)
    \/ \E c \in Conns, kind \in OtherKinds : ReceiveOther(c, kind)
    \/ \E c \in Conns, rid \in RequestIds : ReceiveBusiness(c, rid)
    \/ \E c \in Conns : AckAndDispatch(c)
    \/ \E c \in Conns : IdleTimeout(c)
    \/ \E c \in Conns : ClientDisconnect(c)
    \/ \E c \in Conns : KeepaliveWake(c)
    \/ \E c \in Conns, how \in {"dead", "gone"} : PeerLost(c, how)
    \/ \E c \in Conns, rid \in RequestIds : TaskFinish(c, rid)


(***************************************************************************)
(* Streaming fan-out: receive_stream_update                                *)
(***************************************************************************)
\* StreamUpdate as far as the handler reads it: type, user_id,
\* metadata.session_id, metadata.request_id, and whether agent_response is
\* a non-empty string
UpdateTypes == {"progress", "complete", "final"}

Updates ==
    [type : UpdateTypes, user : UserIds, session : SessionIds,
     rid : RequestIds, answer : BOOLEAN]

SessionKey(u) == <<u.user, u.rid>>
SessionKeys == UserIds \X RequestIds

NoSession == [exists |-> FALSE, updates |-> << >>, complete |-> FALSE]

\* frames as the client tells them apart: the type, and the final flag that
\* only the agent_response frame carries
Frame(type, final) == [type |-> type, final |-> final]

NoUpdate == [type |-> "none", user |-> "none", session |-> "none",
             rid |-> NoRid, answer |-> FALSE]
NoCall == [ev |-> NoUpdate, ws |-> NoConn, out |-> << >>, result |-> "none"]

StreamInit ==
    /\ streaming_sessions = [k \in SessionKeys |-> NoSession]
    /\ hs = {}
    /\ fin = NoCall

\* the types that set the session's complete flag
IsTerminalCompleteOnly(type) == type = "complete"

IsTerminal(type) == type \in {"complete", "final"}

\* the test that guards the second, agent_response frame
WantsAnswerFrame(u) == u.type = "complete" /\ u.answer

\* lines 1417-1427: create the session on its first event, append, flag
LogUpdate(ss, u) ==
    [ss EXCEPT ![SessionKey(u)] =
        [exists |-> TRUE,
         updates |-> Append(@.updates, u),
         complete |-> @.complete \/ IsTerminal(u.type)]]

RECURSIVE SumLen(_, _)
SumLen(ss, keys) ==
    IF keys = {} THEN 0
    ELSE LET k == CHOOSE x \in keys : TRUE
         IN Len(ss[k].updates) + SumLen(ss, keys \ {k})

\* updates received so far, over all sessions
LoggedUpdates == SumLen(streaming_sessions, SessionKeys)

\* the call up to its first suspension: log the update, look the connection
\* up and send the status frame; a failed send is caught and answered with
\* status error
StreamReceive(u) ==
    /\ LoggedUpdates < MaxUpdates
    /\ streaming_sessions' = LogUpdate(streaming_sessions, u)
    /\ LET ws == active_connections[<<u.user, u.session>>] IN
       IF ws = NoConn
       THEN /\ fin' = [ev |-> u, ws |-> NoConn, out |-> << >>, result |-> "received"]
            /\ UNCHANGED hs
       ELSE IF ~CanSend(ws)
       THEN /\ fin' = [ev |-> u, ws |-> ws, out |-> << >>, result |-> "error"]
            /\ UNCHANGED hs
       ELSE IF WantsAnswerFrame(u)
       THEN /\ Cardinality(hs) < MaxInflight
            /\ hs' = Overtaken(hs, ws) \cup {[ev |-> u, ws |-> ws, clean |-> TRUE]}
            /\ UNCHANGED fin
       ELSE /\ fin' = [ev |-> u, ws |-> ws, out |-> <<Frame(u.type, FALSE)>>,
                       result |-> "received"]
            /\ hs' = Overtaken(hs, ws)
    /\ UNCHANGED exceptStream

\* the second send, on the socket looked up before the first one
StreamSecondSend(h) ==
    /\ h \in hs
    /\ hs' = IF CanSend(h.ws) THEN Overtaken(hs \ {h}, h.ws) ELSE hs \ {h}
    /\ fin' = IF CanSend(h.ws)
              THEN [ev |-> h.ev, ws |-> h.ws,
                    out |-> <<Frame(h.ev.type, FALSE), Frame("agent_response", TRUE)>>,
                    result |-> "received"]
              ELSE [ev |-> h.ev, ws |-> h.ws, out |-> <<Frame(h.ev.type, FALSE)>>,
                    result |-> "error"]
    /\ UNCHANGED streaming_sessions
    /\ UNCHANGED exceptStream

\* the socket gateway as far as the fan-out depends on it
StreamNext ==
    \/ \E u \in Updates : StreamReceive(u)
    \/ \E h \in hs : StreamSecondSend(h)
    \/ \E c \in Conns : Accept(c)
    \/ \E c \in Conns : SendConnected(c)
    \/ \E c \in Conns : ClientDisconnect(c)
    \/ \E c \in Conns, how \in {"dead", "gone"} : PeerLost(c, how)

(***************************************************************************)
(* Strings, as sequences of characters                                     *)
(***************************************************************************)
Str1(a) == <<a>>
Str2(a, b) == <<a, b>>

\* str.strip(): leading and trailing whitespace removed
RECURSIVE LStrip(_)
LStrip(s) == IF s # << >> /\ Head(s) = " " THEN LStrip(Tail(s)) ELSE s

RECURSIVE RStrip(_)
RStrip(s) ==
    IF s # << >> /\ s[Len(s)] = " " THEN RStrip(SubSeq(s, 1, Len(s) - 1)) ELSE s

Strip(s) == RStrip(LStrip(s))

UpperCase == <<"A", "B", "C", "D", "E", "F", "G", "H", "I", "J", "K", "L", "M", "N", "O", "P", "Q", "R", "S", "T", "U", "V", "W", "X", "Y", "Z">>
LowerCase == <<"a", "b", "c", "d", "e", "f", "g", "h", "i", "j", "k", "l", "m", "n", "o", "p", "q", "r", "s", "t", "u", "v", "w", "x", "y", "z">>

\* str.lower()
LowerChar(ch) ==
    IF \E i \in 1..Len(UpperCase) : UpperCase[i] = ch
    THEN LowerCase[CHOOSE i \in 1..Len(UpperCase) : UpperCase[i] = ch]
    ELSE ch

Lower(s) == [i \in 1..Len(s) |-> LowerChar(s[i])]

\* pattern in s
IsSubstring(pattern, s) ==
    \E i \in 0..(Len(s) - Len(pattern)) : SubSeq(s, i + 1, i + Len(pattern)) = pattern

\* len(s.split()): the maximal runs of non-blank characters
NumTokens(s) ==
    Cardinality({i \in 1..Len(s) : s[i] # " " /\ (i = 1 \/ s[i - 1] = " ")})

(***************************************************************************)
(* The clock                                                               *)
(***************************************************************************)
\* seconds by which the clock advances between two events
Delays == {1, 10, 290}

NoTime == 0 - 1

ClockInit == now = 0 /\ ticks = 0

(***************************************************************************)
(* Conversational router: n8n_main_request and ConversationalHandler       *)
(***************************************************************************)
\* seconds within which a repeated request_key is a duplicate
DedupWindow == 2
\* age in seconds beyond which a dedup entry is swept
DedupKeep == 10
\* ConversationalHandler._cache_ttl
ResponseTtl == 300

\* path and body parameters of the calls
Sessions == {Str2("s", "1")}
Messages == {Str2("h", "i"), Str2("y", "o"), Str1(" ")}
AgentNames == {Str1("p")}
HttpRequestIds == {"q1", "q2"}

Contents == Sessions \X Messages \X AgentNames

\* f"{session_id}:{request.user_mssg}:{agent_name}"
RequestKey(session, msg, agent) == session \o Str1(":") \o msg \o Str1(":") \o agent
RequestKeys == {RequestKey(x[1], x[2], x[3]) : x \in Contents}

\* not request.user_mssg or request.user_mssg.strip() == ""
IsBlankEmptyOnly(msg) == msg = << >>

IsBlank(msg) == Strip(msg) = << >>

NoEntry == [present |-> FALSE, status |-> "none", by |-> "none", timestamp |-> NoTime]

\* what is remembered of a call: its content, when it arrived, how it was
\* answered and how many POSTs to the workflow engine it started; arrival
\* time and POSTs of the latest earlier call with that content that was
\* entered in the dedup map (acc)
NoContent == << >>
NoCallRec ==
    [x |-> NoContent, t |-> NoTime, reply |-> "none", posts |-> 0,
     accT |-> NoTime, accPosts |-> 0]
NoEntered == [t |-> NoTime, posts |-> 0]

RouterInit ==
    /\ request_cache = [k \in RequestKeys |-> NoTime]
    /\ responses = [r \in HttpRequestIds |-> NoEntry]
    /\ pending = {}
    /\ lastCall = NoCallRec
    /\ entered = [x \in Contents |-> NoEntered]

\* the duplicate test of lines 1302-1303
IsDuplicateNever(rc, key, t) == FALSE

IsDuplicateWithinOne(rc, key, t) == rc[key] # NoTime /\ t - rc[key] < 1

IsDuplicate(rc, key, t) == rc[key] # NoTime /\ t - rc[key] < DedupWindow

\* lines 1304-1310: the duplicate reply is returned before line 1312, which
\* stores the arrival time under the key
DuplicateRefreshes(rc, key, t) == [rc EXCEPT ![key] = t]

AfterDuplicate(rc, key, t) == rc

\* lines 1315-1317: entries older than DedupKeep are deleted
Sweep(rc, t) == [k \in RequestKeys |-> IF rc[k] # NoTime /\ t - rc[k] > DedupKeep
                                       THEN NoTime ELSE rc[k]]

\* get_cached_response: the entry is served while younger than the TTL
FreshInclusive(e, t) == e.present /\ t - e.timestamp <= ResponseTtl

FreshNever(e, t) == FALSE

Fresh(e, t) == e.present /\ t - e.timestamp < ResponseTtl

\* get_cached_response deletes an entry it finds expired
Expire(rs, rid, t) ==
    IF rs[rid].present /\ ~Fresh(rs[rid], t) THEN [rs EXCEPT ![rid] = NoEntry] ELSE rs

\* cache_response
CacheResponse(rs, rid, status, by, t) ==
    [rs EXCEPT ![rid] = [present |-> TRUE, status |-> status, by |-> by, timestamp |-> t]]

\* replies that come after the request was entered in the dedup map
Entered(reply) == reply \in {"cached", "forwarded"}

\* history: the call that just arrived
Record(x, reply, posts) ==
    /\ lastCall' = [x |-> x, t |-> now, reply |-> reply, posts |-> posts,
                    accT |-> entered[x].t, accPosts |-> entered[x].posts]
    /\ entered' = IF Entered(reply)
                  THEN [entered EXCEPT ![x] = [t |-> now, posts |-> posts]]
                  ELSE entered

\* n8n_main_request from its arrival to its first suspension, which is the
\* POST to the workflow engine inside process_message
MainRequest(session, msg, agent, rid) ==
    LET x == <<session, msg, agent>>
        key == RequestKey(session, msg, agent)
        swept == Sweep([request_cache EXCEPT ![key] = now], now)
    IN
    /\ IF IsBlank(msg)
       THEN \* "Empty message ignored"
            /\ Record(x, "empty", 0)
            /\ UNCHANGED <<request_cache, responses, pending>>
       ELSE IF IsDuplicate(request_cache, key, now)
       THEN \* "Duplicate request ignored"
            /\ Record(x, "duplicate", 0)
            /\ request_cache' = AfterDuplicate(request_cache, key, now)
            /\ UNCHANGED <<responses, pending>>
       ELSE IF Fresh(responses[rid], now)
       THEN \* the cached response of this request_id
            /\ request_cache' = swept
            /\ Record(x, "cached", 0)
            /\ UNCHANGED <<responses, pending>>
       ELSE \* handle_message -> process_message -> POST
            /\ Cardinality(pending) < MaxPending
            /\ request_cache' = swept
            /\ responses' = Expire(responses, rid, now)
            /\ pending' = pending \cup {[rid |-> rid, stage |-> "process"]}
            /\ Record(x, "forwarded", 1)
    /\ UNCHANGED exceptRouter

\* the POST of process_message ends: its formatted response, or the error
\* result when it raised, is cached by handle_message under the request_id;
\* n8n_main_request then awaits call_n8n_webhook
ProcessReturns(h, status) ==
    /\ h \in pending /\ h.stage = "process"
    /\ responses' = CacheResponse(responses, h.rid, status, "process_message", now)
    /\ pending' = (pending \ {h}) \cup {[h EXCEPT !.stage = "webhook"]}
    /\ UNCHANGED <<request_cache, lastCall, entered>>
    /\ UNCHANGED exceptRouter

\* call_n8n_webhook ends: its reply is formatted and cached under the
\* request_id and the exchange is saved; when it raised, the call is
\* answered with HTTP 500 and nothing more is cached
WebhookReturns(h, status) ==
    /\ h \in pending /\ h.stage = "webhook"
    /\ responses' = IF status = "raised" THEN responses
                    ELSE CacheResponse(responses, h.rid, status, "n8n_main_request", now)
    /\ pending' = pending \ {h}
    /\ UNCHANGED <<request_cache, lastCall, entered>>
    /\ UNCHANGED exceptRouter

\* time passes
Tick(d) ==
    /\ ticks < MaxTicks
    /\ now' = now + d
    /\ ticks' = ticks + 1
    /\ UNCHANGED exceptClock

RouterNext ==
    \/ \E session \in Sessions, msg \in Messages, agent \in AgentNames,
          rid \in HttpRequestIds : MainRequest(session, msg, agent, rid)
    \/ \E h \in pending, status \in {"success", "error"} : ProcessReturns(h, status)
    \/ \E h \in pending, status \in {"success", "error", "raised"} : WebhookReturns(h, status)
    \/ \E d \in Delays : Tick(d)

(***************************************************************************)
(* ConversationalHandler.handle_message and process_message, called as     *)
(* n8n_main_request_stream calls them: with whatever message it was sent   *)
(***************************************************************************)
\* the messages of the direct calls: empty, whitespace only, two ordinary
HandlerMessages == {<< >>, Str1(" "), Str2("h", "i"), Str2("y", "o")}

\* how the POST to the workflow engine inside process_message can end: a
\* JSON object (whose 'status' is copied), no connection, a non-2xx status
\* (raise_for_status), a body that is not JSON, JSON that is not an object
EngineFailures == {"connection_error", "bad_status", "bad_body", "not_object"}
EngineOutcomes ==
    {[kind |-> "reply", status |-> s] : s \in {"success", "error"}}
    \cup {[kind |-> k, status |-> "none"] : k \in EngineFailures}

\* what a response is known by: its status, who made it and when
NoResponse == [status |-> "none", by |-> "none", made |-> NoTime]
ResponseOf(e) == [status |-> e.status, by |-> e.by, made |-> e.timestamp]
EmptyMessageError == [status |-> "error", by |-> "handle_message", made |-> NoTime]

\* history of a handle_message call: its request_id and message, when it was
\* made, how it went (empty, cached, forwarded), what it returned at once,
\* the POSTs it started, the cache lookups and cache writes it made, and
\* the creation time of the entry its lookup found
NoHandleRec ==
    [rid |-> "none", msg |-> << >>, t |-> NoTime, how |-> "none", ret |-> NoResponse,
     posts |-> 0, reads |-> 0, entryT |-> NoTime]
NoProcessRec ==
    [rid |-> "none", outcome |-> "none", status |-> "none", detail |-> "none",
     raised |-> FALSE]

NoEnded == [failT |-> NoTime, failedLast |-> FALSE]

HandlerInit ==
    /\ suspended = [r \in HttpRequestIds |-> 0]
    /\ lastHandle = NoHandleRec
    /\ lastProcess = NoProcessRec
    /\ engineEnds = [r \in HttpRequestIds |-> NoEnded]

\* the calls in flight, counted per request_id: several of them may carry
\* the same request_id
RECURSIVE InFlight(_, _)
InFlight(calls, rids) ==
    IF rids = {} THEN 0
    ELSE LET r == CHOOSE x \in rids : TRUE
         IN calls[r] + InFlight(calls, rids \ {r})

\* handle_message from its call to its return or to the POST of
\* process_message
HandleMessage(msg, rid) ==
    LET rec(how, ret, posts, reads, entryT) ==
            [rid |-> rid, msg |-> msg, t |-> now, how |-> how, ret |-> ret,
             posts |-> posts, reads |-> reads, entryT |-> entryT]
    IN
    /\ IF IsBlank(msg)
       THEN \* 'Empty message received'
            /\ lastHandle' = rec("empty", EmptyMessageError, 0, 0, NoTime)
            /\ UNCHANGED <<responses, suspended>>
       ELSE IF Fresh(responses[rid], now)
       THEN \* the cached response of this request_id
            /\ lastHandle' = rec("cached", ResponseOf(responses[rid]), 0, 1,
                                 responses[rid].timestamp)
            /\ UNCHANGED <<responses, suspended>>
       ELSE \* process_message
            /\ InFlight(suspended, HttpRequestIds) < MaxSuspended
            /\ responses' = Expire(responses, rid, now)
            /\ suspended' = [suspended EXCEPT ![rid] = @ + 1]
            /\ lastHandle' = rec("forwarded", NoResponse, 1, 1, responses[rid].timestamp)
    /\ UNCHANGED <<lastProcess, engineEnds>>
    /\ UNCHANGED exceptHandler

\* the except clause of process_message: every Exception
CaughtHttpOnly(kind) == kind \in {"connection_error", "bad_status"}

Caught(kind) == TRUE

\* process_message after its POST
ProcessMessage(outcome) ==
    IF outcome.kind = "reply"
    THEN [status |-> outcome.status, detail |-> "none", raised |-> FALSE]
    ELSE IF Caught(outcome.kind)
    THEN [status |-> "error", detail |-> outcome.kind, raised |-> FALSE]
    ELSE [status |-> "none", detail |-> outcome.kind, raised |-> TRUE]

\* the POST of a suspended handle_message call ends: process_message
\* returns, handle_message caches what it returned under the request_id
\* and returns it; an exception out of process_message would be raised
\* again by handle_message with nothing cached
ProcessMessageReturns(rid, outcome) ==
    /\ suspended[rid] > 0
    /\ suspended' = [suspended EXCEPT ![rid] = @ - 1]
    /\ responses' = IF ProcessMessage(outcome).raised THEN responses
                    ELSE CacheResponse(responses, rid, ProcessMessage(outcome).status,
                                       "process_message", now)
    /\ lastProcess' = [rid |-> rid, outcome |-> outcome.kind,
                       status |-> ProcessMessage(outcome).status,
                       detail |-> ProcessMessage(outcome).detail,
                       raised |-> ProcessMessage(outcome).raised]
    /\ engineEnds' = [engineEnds EXCEPT ![rid] =
                    [failT |-> IF outcome.kind \in EngineFailures THEN now ELSE @.failT,
                     failedLast |-> outcome.kind \in EngineFailures]]
    /\ UNCHANGED lastHandle
    /\ UNCHANGED exceptHandler

HandlerNext ==
    \/ \E msg \in HandlerMessages, rid \in HttpRequestIds : HandleMessage(msg, rid)
    \/ \E rid \in HttpRequestIds, outcome \in EngineOutcomes :
          ProcessMessageReturns(rid, outcome)
    \/ \E d \in Delays : Tick(d)

(***************************************************************************)
(* Agent matcher: AgentMatcher.check_agent_match                           *)
(***************************************************************************)
\* AgentMatcher._cache_ttl
MatchTtl == 300
\* the confidence floor of a basic query, in hundredths
BasicFloor == 40
\* the largest number of tokens of a query that is basic by its length
BasicTokens == 3
\* the default threshold, in hundredths
DefaultThreshold == 30

BasicPatterns ==
    {<<"h", "e", "l", "l", "o">>, <<"h", "i">>,
     <<"h", "e", "y">>, <<"g", "o", "o", "d", " ", "m", "o", "r", "n", "i", "n", "g">>,
     <<"g", "o", "o", "d", " ", "a", "f", "t", "e", "r", "n", "o", "o", "n">>, <<"g", "o", "o", "d", " ", "e", "v", "e", "n", "i", "n", "g">>,
     <<"w", "h", "o", " ", "a", "r", "e", " ", "y", "o", "u">>, <<"w", "h", "a", "t", " ", "a", "r", "e", " ", "y", "o", "u">>,
     <<"i", "n", "t", "r", "o", "d", "u", "c", "e", " ", "y", "o", "u", "r", "s", "e", "l", "f">>, <<"t", "e", "l", "l", " ", "m", "e", " ", "a", "b", "o", "u", "t", " ", "y", "o", "u", "r", "s", "e", "l", "f">>,
     <<"w", "h", "a", "t", " ", "d", "o", " ", "y", "o", "u", " ", "d", "o">>, <<"w", "h", "a", "t", " ", "c", "a", "n", " ", "y", "o", "u", " ", "h", "e", "l", "p", " ", "w", "i", "t", "h">>,
     <<"h", "o", "w", " ", "c", "a", "n", " ", "y", "o", "u", " ", "h", "e", "l", "p">>, <<"w", "h", "a", "t", " ", "s", "e", "r", "v", "i", "c", "e", "s">>,
     <<"g", "r", "e", "e", "t", "i", "n", "g", "s">>, <<"s", "a", "l", "u", "t", "a", "t", "i", "o", "n", "s">>,
     <<"y", "o">>, <<"h", "o", "w", "d", "y">>,
     <<"h", "o", "w", " ", "a", "r", "e", " ", "y", "o", "u">>, <<"h", "o", "w", " ", "d", "o", " ", "y", "o", "u", " ", "d", "o">>,
     <<"n", "i", "c", "e", " ", "t", "o", " ", "m", "e", "e", "t", " ", "y", "o", "u">>, <<"p", "l", "e", "a", "s", "e", "d", " ", "t", "o", " ", "m", "e", "e", "t", " ", "y", "o", "u">>,
     <<"w", "h", "a", "t", " ", "i", "s", " ", "t", "h", "i", "s">>, <<"e", "x", "p", "l", "a", "i", "n", " ", "t", "h", "i", "s">>,
     <<"h", "e", "l", "p">>, <<"a", "s", "s", "i", "s", "t", "a", "n", "c", "e">>,
     <<"s", "u", "p", "p", "o", "r", "t">>, <<"i", "n", "f", "o">>,
     <<"i", "n", "f", "o", "r", "m", "a", "t", "i", "o", "n">>, <<"t", "h", "a", "n", "k", "s">>,
     <<"t", "h", "a", "n", "k", " ", "y", "o", "u">>}

\* query_lower = user_query.lower().strip(); any(pattern in query_lower) or
\* len(query_lower.split()) <= 3
IsBasic(query) ==
    LET query_lower == Strip(Lower(query)) IN
    \/ \E pattern \in BasicPatterns : IsSubstring(pattern, query_lower)
    \/ NumTokens(query_lower) <= BasicTokens

\* the calls made: agent p_hi with query "a b c d" and agent p with query
\* "hi_a b c d" get the same cache key
AgentP == <<"p">>
AgentPHi == <<"p", "_", "h", "i">>
QueryHi == <<"H", "i">>
QueryLong == <<"a", " ", "b", " ", "c", " ", "d">>
QueryHiLong == <<"h", "i", "_", "a", " ", "b", " ", "c", " ", "d">>
MatchCalls == {<<AgentP, QueryHi>>, <<AgentP, QueryHiLong>>, <<AgentPHi, QueryLong>>}
Thresholds == {DefaultThreshold, 60}

\* f"agent_match_{agent_name}_{user_query}"
CacheKey(agent_name, user_query) ==
    <<"a", "g", "e", "n", "t", "_", "m", "a", "t", "c", "h", "_">> \o agent_name \o <<"_">> \o user_query
CacheKeys == {CacheKey(x[1], x[2]) : x \in MatchCalls}

\* what the collaborators do during one call: the documents check, and then
\* the embedding and the similarity lookup (similarity in hundredths)
DocsOutcomes == {"has", "none", "raises"}
LookupOutcomes ==
    {[kind |-> "embedding_raises", similarity |-> 0],
     [kind |-> "lookup_raises", similarity |-> 0],
     [kind |-> "empty", similarity |-> 0],
     [kind |-> "row", similarity |-> 10],
     [kind |-> "row", similarity |-> 50]}

\* return values: the pair (match, confidence), or the bare False of line 63
Pair(match, confidence) == [shape |-> "pair", match |-> match, confidence |-> confidence]
BareFalse == [shape |-> "bool", match |-> FALSE, confidence |-> 0]
NoRet == [shape |-> "none", match |-> FALSE, confidence |-> 0]

NoMatchEntry == [present |-> FALSE, result |-> NoRet, timestamp |-> NoTime]

\* what is remembered of a call: its agent and query, when it was made,
\* what the documents check found, what it returned, the embeddings and
\* lookups it made; time and result of the latest earlier call for that
\* agent and query that computed and cached its result (since)
NoMatchRec ==
    [x |-> NoContent, threshold |-> 0, t |-> NoTime, docs |-> "none", ret |-> NoRet, embeds |-> 0,
     lookups |-> 0, how |-> "none", since |-> NoTime, sinceRet |-> NoRet]
NoComputed == [t |-> NoTime, ret |-> NoRet]

MatcherInit ==
    /\ match_cache = [k \in CacheKeys |-> NoMatchEntry]
    /\ lastMatch = NoMatchRec
    /\ computed = [x \in MatchCalls |-> NoComputed]

\* line 68: the entry is served while younger than the TTL
MatchFreshNever(e, t) == FALSE

MatchFresh(e, t) == e.present /\ t - e.timestamp < MatchTtl

\* lines 102-118: the result computed from the lookup's rows
Compute(query, threshold, outcome) ==
    LET rows == outcome.kind = "row"
        confidence == IF rows THEN outcome.similarity ELSE 0
    IN IF IsBasic(query)
       THEN Pair(TRUE, IF confidence < BasicFloor THEN BasicFloor ELSE confidence)
       ELSE Pair(rows /\ outcome.similarity >= threshold, confidence)

RecordMatch(x, threshold, docs, ret, embeds, lookups, how) ==
    /\ lastMatch' = [x |-> x, threshold |-> threshold, t |-> now, docs |-> docs, ret |-> ret,
                     embeds |-> embeds, lookups |-> lookups, how |-> how,
                     since |-> computed[x].t, sinceRet |-> computed[x].ret]
    /\ computed' = IF how = "computed"
                   THEN [computed EXCEPT ![x] = [t |-> now, ret |-> ret]]
                   ELSE computed

\* one call of check_agent_match; nothing in it suspends
CheckAgentMatch(agent, query, threshold, docs, outcome) ==
    LET x == <<agent, query>>
        key == CacheKey(agent, query)
    IN
    /\ IF docs = "raises"
       THEN \* the documents check raised: (False, 0.0)
            /\ RecordMatch(x, threshold, docs, Pair(FALSE, 0), 0, 0, "failed")
            /\ UNCHANGED match_cache
       ELSE IF docs = "none"
       THEN \* no documents for the agent
            /\ RecordMatch(x, threshold, docs, BareFalse, 0, 0, "nodocs")
            /\ UNCHANGED match_cache
       ELSE IF MatchFresh(match_cache[key], now)
       THEN /\ RecordMatch(x, threshold, docs, match_cache[key].result, 0, 0, "cache")
            /\ UNCHANGED match_cache
       ELSE IF outcome.kind = "embedding_raises"
       THEN /\ RecordMatch(x, threshold, docs, Pair(FALSE, 0), 1, 0, "failed")
            /\ UNCHANGED match_cache
       ELSE IF outcome.kind = "lookup_raises"
       THEN /\ RecordMatch(x, threshold, docs, Pair(FALSE, 0), 1, 1, "failed")
            /\ UNCHANGED match_cache
       ELSE LET ret == Compute(query, threshold, outcome) IN
            /\ match_cache' = [match_cache EXCEPT ![key] =
                   [present |-> TRUE, result |-> ret, timestamp |-> now]]
            /\ RecordMatch(x, threshold, docs, ret, 1, 1, "computed")
    /\ UNCHANGED exceptMatcher

\* n8n_check_agent_match: what the endpoint answers for a value returned by
\* check_agent_match; unpacking a value that is no pair raises TypeError,
\* which the endpoint's handler turns into its status "error" answer
N8nCheckAgentMatch(ret) ==
    IF ret.shape = "pair"
    THEN [status |-> "success", is_match |-> ret.match, confidence |-> ret.confidence,
          error |-> "none", http |-> 200]
    ELSE [status |-> "error", is_match |-> FALSE, confidence |-> NoTime,
          error |-> "TypeError", http |-> 200]

MatcherNext ==
    \/ \E x \in MatchCalls, threshold \in Thresholds, docs \in DocsOutcomes,
          outcome \in LookupOutcomes :
          CheckAgentMatch(x[1], x[2], threshold, docs, outcome)
    \/ \E d \in Delays : Tick(d)

(***************************************************************************)
(* Agent matcher: AgentMatcher.find_best_agents                            *)
(***************************************************************************)
\* the agent and the score of the fallback answer; scores are percentages,
\* kept in tenths
DefaultAgent == "presaleskb"
FallbackScore == 500

\* similarity * 100: a similarity in hundredths as a percentage in tenths
ScoreOf(similarity) == similarity * 10

\* queries and top_n values of the calls
BestQueries == {"q1"}
TopNs == {0, 1, 2}

\* f"best_agents_{user_query}"
BestKey(user_query) == <<"best_agents_", user_query>>
BestKeys == {BestKey(q) : q \in BestQueries}

\* the rows of match_agents_by_similarity
RowValues == [agent_name : {"presaleskb", "leadgenkb"}, similarity : {35, 80}]
RowLists == UNION {[1..n -> RowValues] : n \in 0..MaxRows}
BestOutcomes ==
    {[kind |-> "embedding_raises", rows |-> << >>],
     [kind |-> "lookup_raises", rows |-> << >>]}
    \cup {[kind |-> "rows", rows |-> r] : r \in RowLists}

Fallback == << <<DefaultAgent, FallbackScore>> >>

\* lines 161-167: one score per agent, the largest seen, agents in the order
\* of their first row
RECURSIVE AgentScores(_, _)
AgentScores(rows, scores) ==
    IF rows = << >> THEN scores
    ELSE LET item == Head(rows)
             score == ScoreOf(item.similarity)
             at == {i \in 1..Len(scores) : scores[i][1] = item.agent_name}
         IN IF at = {}
            THEN AgentScores(Tail(rows), Append(scores, <<item.agent_name, score>>))
            ELSE LET i == CHOOSE j \in at : TRUE IN
                 AgentScores(Tail(rows),
                             IF score > scores[i][2]
                             THEN [scores EXCEPT ![i] = <<item.agent_name, score>>]
                             ELSE scores)

\* sorted(..., key=score, reverse=True): descending and stable
RECURSIVE InsertDesc(_, _)
InsertDesc(e, sorted) ==
    IF sorted = << >> THEN <<e>>
    ELSE IF Head(sorted)[2] >= e[2] THEN <<Head(sorted)>> \o InsertDesc(e, Tail(sorted))
    ELSE <<e>> \o sorted

SortKeepOrder(items, sorted) == items

RECURSIVE SortDesc(_, _)
SortDesc(items, sorted) ==
    IF items = << >> THEN sorted
    ELSE SortDesc(Tail(items), InsertDesc(Head(items), sorted))

\* the slice seq[:n]
Take(seq, n) ==
    IF n >= 0 THEN SubSeq(seq, 1, IF n < Len(seq) THEN n ELSE Len(seq))
    ELSE SubSeq(seq, 1, IF Len(seq) + n > 0 THEN Len(seq) + n ELSE 0)

\* line 158: the fallback taken when the service returns no row
NoRows(rows) == rows = << >>

NoBestEntry == [present |-> FALSE, result |-> << >>, timestamp |-> NoTime]

\* what is remembered of a call: its query and top_n, when it was made, the
\* list it returned, how it got it and how many rows the service returned
NoBestRec ==
    [q |-> "none", top_n |-> 0, t |-> NoTime, ret |-> << >>, how |-> "none",
     rows |-> << >>]

BestInit ==
    /\ best_cache = [k \in BestKeys |-> NoBestEntry]
    /\ lastBest = NoBestRec

\* one call of find_best_agents; nothing in it suspends
FindBestAgents(user_query, top_n, outcome) ==
    LET key == BestKey(user_query)
        rec(ret, how) == [q |-> user_query, top_n |-> top_n, t |-> now, ret |-> ret,
                          how |-> how, rows |-> outcome.rows]
    IN
    /\ IF MatchFresh(best_cache[key], now)
       THEN /\ lastBest' = [rec(best_cache[key].result, "cache") EXCEPT !.rows = << >>]
            /\ UNCHANGED best_cache
       ELSE IF outcome.kind # "rows"
       THEN \* the embedding or the lookup raised
            /\ lastBest' = rec(Fallback, "failed")
            /\ UNCHANGED best_cache
       ELSE IF NoRows(outcome.rows)
       THEN /\ lastBest' = rec(Fallback, "fallback")
            /\ UNCHANGED best_cache
       ELSE LET ret == Take(SortDesc(AgentScores(outcome.rows, << >>), << >>), top_n) IN
            /\ best_cache' = [best_cache EXCEPT ![key] =
                   [present |-> TRUE, result |-> ret, timestamp |-> now]]
            /\ lastBest' = rec(ret, "computed")
    /\ UNCHANGED exceptBest

BestNext ==
    \/ \E user_query \in BestQueries, top_n \in TopNs, outcome \in BestOutcomes :
          FindBestAgents(user_query, top_n, outcome)
    \/ \E d \in Delays : Tick(d)

(***************************************************************************)
(* Bounded orchestrator: full_website_analysis                             *)
(***************************************************************************)
\* the three subtasks, in the order the handler reads their results
Subtasks == <<"analysis", "screenshot", "favicon">>
SubtaskNames == {Subtasks[i] : i \in 1..Len(Subtasks)}

\* what a subtask's service delivers
Payloads == {"a", "b"}

NoEntryOf == [status |-> "none", payload |-> "none"]
Idle == [st |-> "idle", status |-> "none", payload |-> "none"]
Running == [st |-> "running", status |-> "none", payload |-> "none"]

NoResults ==
    [kind |-> "none", overall |-> "none", entries |-> [s \in SubtaskNames |-> NoEntryOf]]

OrchInit ==
    /\ phase = "idle"
    /\ sub = [s \in SubtaskNames |-> Idle]
    /\ atDeadline = [s \in SubtaskNames |-> "none"]
    /\ results = NoResults

\* lines 1811-1825: the three create_task calls, then the handler waits
OrchStart ==
    /\ phase = "idle"
    /\ phase' = "waiting"
    /\ sub' = [s \in SubtaskNames |-> Running]
    /\ UNCHANGED <<atDeadline, results>>
    /\ UNCHANGED exceptOrch

\* a subtask endpoint returns: its success result, or the error result its
\* own exception handler builds
SubtaskReturns(s, status, payload) ==
    /\ phase = "waiting"
    /\ sub[s].st = "running"
    /\ sub' = [sub EXCEPT ![s] =
                  [st |-> "done", status |-> status,
                   payload |-> IF status = "success" THEN payload ELSE "none"]]
    /\ UNCHANGED <<phase, atDeadline, results>>
    /\ UNCHANGED exceptOrch

\* lines 1871-1876
Overall(entries) ==
    IF \A s \in SubtaskNames : entries[s].status = "success"
    THEN "success" ELSE "partial_success"

EntryOfNothing(task) == NoEntryOf

EntryOf(task) == [status |-> task.status, payload |-> task.payload]

\* lines 1857-1868: the entry read for a subtask after the deadline
TimeoutPlaceholder == [status |-> "timeout", payload |-> "none"]

AfterDeadline(task) ==
    IF task.st \in {"done", "cancelled"} THEN EntryOf(task) ELSE TimeoutPlaceholder

\* gather delivered the three results before the deadline
OrchGathered ==
    /\ phase = "waiting"
    /\ \A s \in SubtaskNames : sub[s].st = "done"
    /\ phase' = "done"
    /\ LET entries == [s \in SubtaskNames |-> EntryOf(sub[s])] IN
       results' = [kind |-> "returned", overall |-> Overall(entries), entries |-> entries]
    /\ UNCHANGED <<sub, atDeadline>>
    /\ UNCHANGED exceptOrch

\* what cancelling a subtask at its suspension point leaves behind: where
\* CancelledError is no Exception it passes the subtask's handler and the
\* task ends cancelled; where it is one, the handler turns it into the
\* subtask's error result
Cancelled(how) ==
    IF how = "propagates"
    THEN [st |-> "cancelled", status |-> "none", payload |-> "none"]
    ELSE [st |-> "done", status |-> "error", payload |-> "none"]

\* the 25 s deadline passes with a subtask unfinished: wait_for cancels the
\* gather, which cancels the unfinished subtasks, waits for them to end and
\* raises TimeoutError; the handler then reads every task, all of them done
\* by now, and awaiting a cancelled one raises CancelledError out of it
OrchDeadline(how) ==
    /\ phase = "waiting"
    /\ \E s \in SubtaskNames : sub[s].st = "running"
    /\ atDeadline' = [s \in SubtaskNames |-> sub[s].st]
    /\ LET ended == [s \in SubtaskNames |->
                        IF sub[s].st = "running" THEN Cancelled(how) ELSE sub[s]]
           entries == [s \in SubtaskNames |-> AfterDeadline(ended[s])]
       IN /\ sub' = ended
          /\ results' =
                IF \E s \in SubtaskNames : ended[s].st = "cancelled"
                THEN [NoResults EXCEPT !.kind = "raised"]
                ELSE [kind |-> "returned", overall |-> Overall(entries),
                      entries |-> entries]
    /\ phase' = "done"
    /\ UNCHANGED exceptOrch

OrchNext ==
    \/ OrchStart
    \/ \E s \in SubtaskNames, status \in {"success", "error"}, payload \in Payloads :
          SubtaskReturns(s, status, payload)
    \/ OrchGathered
    \/ \E how \in {"propagates", "swallowed"} : OrchDeadline(how)

(***************************************************************************)
(* Background orchestrator: full_website_analysis_async and its poll       *)
(***************************************************************************)
\* lines 1647-1649: the entry of a subtask until run_all_operations writes it
PendingEntry == [status |-> "pending", payload |-> "none"]

NoTaskRecord ==
    [status |-> "none", overall_status |-> "none",
     entries |-> [s \in SubtaskNames |-> NoEntryOf]]
NoPoll == [kind |-> "none", record |-> NoTaskRecord, finished |-> {}]

BgInit ==
    /\ bgPhase = "idle"
    /\ bgSub = [s \in SubtaskNames |-> Idle]
    /\ awaiting = 1
    /\ background_results = NoTaskRecord
    /\ lastPoll = NoPoll

\* lines 1639-1668 and 1702: the record is made with its three "pending"
\* entries, run_all_operations is started and creates the three tasks
BgStart ==
    /\ bgPhase = "idle"
    /\ bgPhase' = "running"
    /\ bgSub' = [s \in SubtaskNames |-> Running]
    /\ awaiting' = 1
    /\ background_results' =
          [status |-> "started", overall_status |-> "none",
           entries |-> [s \in SubtaskNames |-> PendingEntry]]
    /\ UNCHANGED lastPoll
    /\ UNCHANGED exceptBg

\* lines 1672-1695: run_all_operations awaits the tasks one after the other,
\* analysis first; each await that finds its task finished writes the
\* entry and goes on to the next, and after the third the record is
\* completed with the aggregate
AdvanceEager(record, subs, i) ==
    [record |-> [record EXCEPT !.status = "complete",
                               !.overall_status = Overall(record.entries)],
     i |-> Len(Subtasks) + 1]

AdvanceNever(record, subs, i) == [record |-> record, i |-> i]

RECURSIVE Advance(_, _, _)
Advance(record, subs, i) ==
    IF i > Len(Subtasks)
    THEN [record |-> [record EXCEPT !.status = "complete",
                                    !.overall_status = Overall(record.entries)],
          i |-> i]
    ELSE IF subs[Subtasks[i]].st = "done"
    THEN Advance([record EXCEPT !.entries[Subtasks[i]] = EntryOf(subs[Subtasks[i]])],
                 subs, i + 1)
    ELSE [record |-> record, i |-> i]

\* what a subtask is after its endpoint returned
Done(status, payload) ==
    [st |-> "done", status |-> status,
     payload |-> IF status = "success" THEN payload ELSE "none"]

\* a subtask endpoint returns, with its success result or with the error
\* result its own exception handler builds; run_all_operations goes on when
\* this is the task it awaits
BgSubtaskReturns(s, status, payload) ==
    /\ bgPhase = "running"
    /\ bgSub[s].st = "running"
    /\ bgSub' = [bgSub EXCEPT ![s] = Done(status, payload)]
    /\ background_results' =
          Advance(background_results, [bgSub EXCEPT ![s] = Done(status, payload)],
                  awaiting).record
    /\ awaiting' =
          Advance(background_results, [bgSub EXCEPT ![s] = Done(status, payload)],
                  awaiting).i
    /\ bgPhase' = IF awaiting' > Len(Subtasks) THEN "complete" ELSE "running"
    /\ UNCHANGED lastPoll
    /\ UNCHANGED exceptBg

\* get_background_task_result: 404 for an unknown task, the record as it is
\* otherwise; with it, the subtasks that had finished when it was read
BgPoll ==
    /\ lastPoll' =
          IF bgPhase = "idle"
          THEN [NoPoll EXCEPT !.kind = "not_found"]
          ELSE [kind |-> "found", record |-> background_results,
                finished |-> {s \in SubtaskNames : bgSub[s].st = "done"}]
    /\ UNCHANGED <<bgPhase, bgSub, awaiting, background_results>>
    /\ UNCHANGED exceptBg

BgNext ==
    \/ BgStart
    \/ \E s \in SubtaskNames, status \in {"success", "error"}, payload \in Payloads :
          BgSubtaskReturns(s, status, payload)
    \/ BgPoll

Init ==
    /\ WsInit /\ StreamInit /\ ClockInit /\ RouterInit /\ HandlerInit /\ MatcherInit
    /\ BestInit /\ OrchInit /\ BgInit

\* the background orchestrator alone
SpecBg == Init /\ [][BgNext]_vars

\* every subtask endpoint ends: its request is answered or fails, and its
\* own exception handler returns
SubtasksEnd ==
    \A s \in SubtaskNames :
       WF_vars(\E status \in {"success", "error"}, payload \in Payloads :
                  BgSubtaskReturns(s, status, payload))

SpecBgLive == Init /\ [][BgNext]_vars /\ SubtasksEnd

\* one run of each orchestrator, side by side
BothNext == OrchNext \/ BgNext
SpecBoth == Init /\ [][BothNext]_vars

\* handle_message and process_message alone
SpecHandler == Init /\ [][HandlerNext]_vars

\* the socket gateway alone
SpecWs == Init /\ [][WsNext]_vars

\* the fan-out, with connections coming and going
SpecStream == Init /\ [][StreamNext]_vars

\* the routed HTTP endpoint, with time passing
SpecRouter == Init /\ [][RouterNext]_vars

\* the agent matcher, with time passing
SpecMatcher == Init /\ [][MatcherNext]_vars

\* find_best_agents, with time passing
SpecBest == Init /\ [][BestNext]_vars

\* the bounded orchestrator
SpecOrch == Init /\ [][OrchNext]_vars

(***************************************************************************)
(* Claims about the socket gateway                                         *)
(***************************************************************************)
\* a connection is live from accept until its teardown has run
Live(c) == pc[c] \in {"opening", "loop", "acking"}

\* C1: when business frames with one requestId arrive back-to-back on a
\* connection and all of them have been handled, exactly one ack was sent
\* and exactly one processing task was dispatched for them: every frame of
\* the run after the first was dropped.
C1_SecondFrameDropped ==
    \A c \in Conns :
        (pc[c] = "loop" /\ run[c].n >= 2) => (run[c].acks = 1 /\ run[c].disp = 1)

\* C3: at most one live connection (accepted, not yet torn down) per
\* connection_id.
C3_OneLiveConnectionPerId ==
    \A c, d \in Conns :
        (Live(c) /\ Live(d) /\ ConnectionId(c) = ConnectionId(d)) => c = d

\* C4: every connection_id in the registry has an active keepalive task: the
\* send_ping task of the socket stored under the id is neither cancelled nor
\* exited.
C4_RegisteredHasKeepalive ==
    \A k \in ConnectionIds :
        active_connections[k] # NoConn => ka[active_connections[k]] = "sleeping"

\* C5: once a connection's teardown has run, no ping frame is sent on its
\* socket any more, the registry does not hold its socket, and the teardown
\* step itself leaves its connection_id absent from the registry.
C5_NoPingAfterTeardown ==
    [][\A c \in Conns :
          pc'[c] = "closed" =>
              /\ active_connections'[ConnectionId(c)] # c
              /\ pc[c] = "closed" => pings'[c] = pings[c]
              /\ pc[c] # "closed" => active_connections'[ConnectionId(c)] = NoConn
      ]_vars

C5_Witness ==
    \E c \in Conns :
        /\ pc[c] = "closed" /\ exitCause[c] = "disconnect"
        /\ ka[c] = "cancelled" /\ pings[c] = 1
        /\ \E d \in Conns : active_connections[ConnectionId(c)] = d /\ pings[d] = 1

\* C6: whatever way a registered connection's handler leaves its receive
\* loop (client disconnect, dead peer found by the idle probe, a failed send
\* of the connected, pong or ack frame, any other exception), in that same
\* step its keepalive task is cancelled and its connection_id is removed
\* from the registry.
ExitCauses == {"disconnect", "dead_peer", "connected_send_failed",
               "ack_send_failed", "pong_send_failed", "exception"}

C6_TeardownOnEveryExit ==
    [][\A c \in Conns :
          (Live(c) /\ ~Live(c)') =>
              /\ pc'[c] = "closed"
              /\ exitCause'[c] \in ExitCauses
              /\ ka'[c] \in {"cancelled", "exited"}
              /\ active_connections'[ConnectionId(c)] = NoConn
      ]_vars

C6_Witness ==
    /\ pc["A"] = "closed" /\ exitCause["A"] = "ack_send_failed"
    /\ ka["A"] = "cancelled"
    /\ pc["B"] = "closed" /\ exitCause["B"] = "dead_peer"
    /\ active_connections[ConnectionId("A")] = NoConn

\* C7: a terminal progress event (type complete or final) that carries a
\* final answer and finds a connection registered for its (user_id,
\* session_id) yields, when the call returns without a send error, exactly
\* two frames on that socket: the status frame with the event's type, then
\* an agent_response frame with final = true.
C7_TerminalEventTwoFrames ==
    (/\ fin.result = "received"
     /\ IsTerminal(fin.ev.type) /\ fin.ev.answer
     /\ fin.ws # NoConn)
    => fin.out = <<Frame(fin.ev.type, FALSE), Frame("agent_response", TRUE)>>

Unfinished == {s \in SubtaskNames : atDeadline[s] = "running"}

\* C8: when the 25 s deadline finds exactly one subtask unfinished and the
\* other two finished with success, the handler returns overall_status
\* partial_success, the entries of the two finished subtasks are their
\* success results with their payloads, and the entry of the unfinished one
\* is the status "timeout" placeholder.
C8_OneSlowSubtaskTimesOut ==
    (/\ phase = "done"
     /\ Cardinality(Unfinished) = 1
     /\ \A s \in SubtaskNames \ Unfinished :
            atDeadline[s] = "done" /\ sub[s].status = "success")
    => (/\ results.kind = "returned"
        /\ results.overall = "partial_success"
        /\ \A s \in SubtaskNames \ Unfinished :
               results.entries[s] = [status |-> "success", payload |-> sub[s].payload]
        /\ \A s \in Unfinished : results.entries[s] = TimeoutPlaceholder)

(***************************************************************************)
(* Claims about the agent matcher                                          *)
(***************************************************************************)
\* C9: of two check_agent_match calls for the same agent and query made less
\* than 300 seconds apart, the second returns the same (match, confidence)
\* as the first and makes no embedding and no similarity lookup.  Stated for
\* every two calls made one right after the other.
C9_SecondCallFromCache ==
    [][(/\ lastMatch' # lastMatch
        /\ lastMatch.t # NoTime
        /\ lastMatch'.x = lastMatch.x
        /\ lastMatch'.t - lastMatch.t < MatchTtl)
       => (/\ lastMatch'.ret = lastMatch.ret
           /\ lastMatch'.embeds = 0
           /\ lastMatch'.lookups = 0)
      ]_vars

\* C9, amended: a check_agent_match call that finds documents for its agent
\* and is made less than 300 seconds after an earlier call for the same
\* agent and query that computed its result from a lookup and cached it
\* returns the pair that call returned, and makes no embedding and no
\* similarity lookup.
C9_CachedWithinTtlOfComputation ==
    (/\ lastMatch.since # NoTime
     /\ lastMatch.t - lastMatch.since < MatchTtl
     /\ lastMatch.docs = "has")
    => (/\ lastMatch.ret = lastMatch.sinceRet
        /\ lastMatch.embeds = 0
        /\ lastMatch.lookups = 0)

C9_Witness ==
    /\ lastMatch.how = "cache"
    /\ lastMatch.since # NoTime /\ lastMatch.t - lastMatch.since = 290
    /\ lastMatch.docs = "has"
    /\ lastMatch.ret = Pair(FALSE, 10)

\* C10: a check_agent_match call for a basic query (one that contains a
\* basic pattern or has at most 3 tokens) and an agent that has documents
\* returns match = true and a confidence of at least 0.4, whatever the
\* similarity service returned (the documents check, the embedding and the
\* lookup did not fail).
C10_BasicQueryAlwaysMatches ==
    (/\ lastMatch.t # NoTime
     /\ lastMatch.docs = "has"
     /\ lastMatch.how # "failed"
     /\ IsBasic(lastMatch.x[2]))
    => (/\ lastMatch.ret.shape = "pair"
        /\ lastMatch.ret.match
        /\ lastMatch.ret.confidence >= BasicFloor)

\* C11: find_best_agents never returns an empty list, whatever the query,
\* top_n and the outcome of the similarity service, also when the result is
\* served from the cache; and when the service returns no row it returns
\* exactly [('presaleskb', 50.0)].
C11_NeverEmptyList ==
    lastBest.t # NoTime
    => (/\ lastBest.ret # << >>
        /\ (lastBest.how # "cache" /\ lastBest.rows = << >>) => lastBest.ret = Fallback)

(***************************************************************************)
(* Claims about the streaming sessions                                     *)
(***************************************************************************)
\* C12: a streaming session is not mutated after completion: once its
\* complete flag is set, no later progress event for the same (user_id,
\* request_id) changes its list of updates or its flag.
C12_NoChangeAfterComplete ==
    [][\A k \in SessionKeys :
          streaming_sessions[k].complete => streaming_sessions'[k] = streaming_sessions[k]
      ]_vars

(***************************************************************************)
(* Claims about the processing tasks of the socket gateway                 *)
(***************************************************************************)
RECURSIVE RunningTasks(_, _)
RunningTasks(rid, conns) ==
    IF conns = {} THEN 0
    ELSE LET c == CHOOSE x \in conns : TRUE
         IN tasks[c][rid] + RunningTasks(rid, conns \ {c})

\* C13: a request_id is never processed twice at once on the socket
\* channel: at any time at most one processing task dispatched for it is
\* running.
C13_OneTaskPerRequestId ==
    \A rid \in RequestIds : RunningTasks(rid, Conns) <= 1

(***************************************************************************)
(* Claims about handle_message and process_message                         *)
(***************************************************************************)
\* C14: an entry of the response cache is valid only while it is younger
\* than 300 s: a lookup made by handle_message 300 s or more after the
\* entry was created finds nothing, deletes the entry and the workflow
\* engine is called again; a lookup made earlier returns the stored
\* response.
C14_ValidOnlyWithinTtl ==
    [][(/\ lastHandle' # lastHandle
        /\ lastHandle'.reads = 1
        /\ responses[lastHandle'.rid].present)
       => IF now - responses[lastHandle'.rid].timestamp < ResponseTtl
          THEN /\ lastHandle'.how = "cached"
               /\ lastHandle'.ret = ResponseOf(responses[lastHandle'.rid])
               /\ suspended' = suspended
          ELSE /\ lastHandle'.how = "forwarded"
               /\ lastHandle'.posts = 1
               /\ suspended' = [suspended EXCEPT ![lastHandle'.rid] = @ + 1]
               /\ ~responses'[lastHandle'.rid].present]_vars

\* a lookup made exactly 300 s after the entry was created went to the
\* workflow engine
C14_Witness ==
    /\ lastHandle.how = "forwarded"
    /\ lastHandle.entryT # NoTime
    /\ lastHandle.t - lastHandle.entryT = ResponseTtl

\* C15: handle_message called with an empty or whitespace-only message
\* returns the status "error" result, raises nothing, starts no POST to the
\* workflow engine and neither reads nor writes the response cache.
C15_EmptyMessageIsErrorOnly ==
    [][(lastHandle' # lastHandle /\ Strip(lastHandle'.msg) = << >>)
       => (/\ lastHandle'.how = "empty"
           /\ lastHandle'.ret.status = "error"
           /\ lastHandle'.posts = 0
           /\ lastHandle'.reads = 0
           /\ responses' = responses
           /\ suspended' = suspended)]_vars

\* a whitespace-only message was rejected although its request_id has an
\* expired entry in the cache, which a lookup would have deleted
C15_Witness ==
    /\ lastHandle.how = "empty"
    /\ lastHandle.msg = Str1(" ")
    /\ responses[lastHandle.rid].present
    /\ lastHandle.t - responses[lastHandle.rid].timestamp >= ResponseTtl

\* C16: when the cache holds an entry younger than 300 s for the request_id
\* of the payload, handle_message returns the stored response whatever the
\* message of the payload is, starts no POST and writes nothing to the
\* cache.
C16_ReplayWhateverTheMessage ==
    [][(/\ lastHandle' # lastHandle
        /\ responses[lastHandle'.rid].present
        /\ now - responses[lastHandle'.rid].timestamp < ResponseTtl)
       => (/\ lastHandle'.how = "cached"
           /\ lastHandle'.ret = ResponseOf(responses[lastHandle'.rid])
           /\ lastHandle'.posts = 0
           /\ responses' = responses
           /\ suspended' = suspended)]_vars

\* C16, amended: the same for every payload whose message is neither empty
\* nor whitespace only.
C16_ReplayOfNonEmptyMessage ==
    [][(/\ lastHandle' # lastHandle
        /\ Strip(lastHandle'.msg) # << >>
        /\ responses[lastHandle'.rid].present
        /\ now - responses[lastHandle'.rid].timestamp < ResponseTtl)
       => (/\ lastHandle'.how = "cached"
           /\ lastHandle'.ret = ResponseOf(responses[lastHandle'.rid])
           /\ lastHandle'.posts = 0
           /\ responses' = responses
           /\ suspended' = suspended)]_vars

\* an entry made by an earlier call was replayed 290 s later
C16_Witness ==
    /\ lastHandle.how = "cached"
    /\ lastHandle.t - lastHandle.entryT = 290
    /\ lastHandle.ret = ResponseOf(responses[lastHandle.rid])
    /\ lastProcess.rid = lastHandle.rid

\* C17: process_message lets no exception out: when the call of the
\* workflow engine fails (no connection, a non-2xx status, a body that
\* cannot be parsed), it returns the status "error" result with the detail
\* of the failure.
C17_ProcessMessageNeverRaises ==
    lastProcess.outcome \in EngineFailures
    => (/\ ~lastProcess.raised
        /\ lastProcess.status = "error"
        /\ lastProcess.detail = lastProcess.outcome
        /\ responses[lastProcess.rid].present
           => responses[lastProcess.rid].status \in {"success", "error"})

\* a body that was not JSON ended as the error result, which handle_message
\* cached
C17_Witness ==
    /\ lastProcess.outcome = "bad_body"
    /\ lastProcess.status = "error"
    /\ responses[lastProcess.rid].present
    /\ responses[lastProcess.rid].status = "error"

\* C18: check_agent_match for an agent without indexed documents returns
\* the pair (false, 0.0) without an embedding and without a similarity
\* lookup, and the endpoint that unpacks the pair answers with a normal
\* no-match decision.
C18_NoDocumentsIsNoMatchPair ==
    (lastMatch.t # NoTime /\ lastMatch.docs = "none")
    => (/\ lastMatch.ret = Pair(FALSE, 0)
        /\ lastMatch.embeds = 0
        /\ lastMatch.lookups = 0
        /\ N8nCheckAgentMatch(lastMatch.ret).status = "success"
        /\ N8nCheckAgentMatch(lastMatch.ret).is_match = FALSE)

(***************************************************************************)
(* Claims about the two orchestrators                                      *)
(***************************************************************************)
\* the aggregate that the outcomes of three subtasks call for
Aggregate(subs) ==
    IF \A s \in SubtaskNames : subs[s].status = "success"
    THEN "success" ELSE "partial_success"

AggregateBounded == phase = "done" => results.overall = Aggregate(sub)
AggregateBackground ==
    bgPhase = "complete" => background_results.overall_status = Aggregate(bgSub)

\* C19: in both orchestrator modes, when the run is over the aggregate
\* status is "success" if all three subtasks ended with status "success"
\* and "partial_success" for every other combination of their outcomes
\* (error, timeout, mixed).
C19_AggregateIffAllSucceed == AggregateBounded /\ AggregateBackground

\* C20: in background mode a poll shows, for every subtask that had
\* finished when the record was read, that subtask's own result and not
\* "pending", whether or not the other subtasks have finished.
C20_PollShowsFinishedSubtasks ==
    lastPoll.kind = "found"
    => \A s \in lastPoll.finished : lastPoll.record.entries[s] = EntryOf(bgSub[s])

\* the subtasks that ended with their error result
Failed(subs) == {s \in SubtaskNames : subs[s].st = "done" /\ subs[s].status = "error"}

\* C21: in both orchestrator modes the failure of one subtask does not
\* abort the others: a subtask is cancelled only by the deadline of the
\* bounded mode, and when the three subtasks have run to their end the
\* result holds for each of them its own result, which for a failed subtask
\* is its status "error" entry.
C21_FailureIsolated ==
    /\ \A s \in SubtaskNames :
          sub[s].st = "cancelled" => \E o \in SubtaskNames : atDeadline[o] = "running"
    /\ (phase = "done" /\ \A s \in SubtaskNames : atDeadline[s] = "none")
       => (/\ results.kind = "returned"
           /\ \A s \in SubtaskNames : results.entries[s] = [status |-> sub[s].status,
                                                            payload |-> sub[s].payload]
           /\ \A s \in Failed(sub) : results.entries[s].status = "error")
    /\ bgPhase = "complete"
       => (/\ background_results.status = "complete"
           /\ \A s \in SubtaskNames :
                 background_results.entries[s] = [status |-> bgSub[s].status,
                                                  payload |-> bgSub[s].payload]
           /\ \A s \in Failed(bgSub) : background_results.entries[s].status = "error")

\* both modes ended with the analysis failed and the other two subtasks
\* reported with their success payloads
C21_Witness ==
    /\ phase = "done" /\ results.kind = "returned"
    /\ Failed(sub) = {"analysis"}
    /\ results.entries["screenshot"] = [status |-> "success", payload |-> "a"]
    /\ results.entries["favicon"] = [status |-> "success", payload |-> "b"]
    /\ bgPhase = "complete"
    /\ Failed(bgSub) = {"analysis"}
    /\ background_results.entries["analysis"].status = "error"
    /\ background_results.entries["screenshot"] = [status |-> "success", payload |-> "b"]
    /\ background_results.entries["favicon"] = [status |-> "success", payload |-> "a"]

(***************************************************************************)
(* Claims about the answers of the matcher and router endpoints            *)
(***************************************************************************)
\* C22: when a service that check_agent_match calls fails (the documents
\* check, the embedding, the similarity lookup), the endpoint answers under
\* HTTP 200 with a body whose status is "error".
C22_UpstreamFailureIsErrorBody ==
    (lastMatch.t # NoTime /\ lastMatch.how = "failed")
    => (/\ N8nCheckAgentMatch(lastMatch.ret).http = 200
        /\ N8nCheckAgentMatch(lastMatch.ret).status = "error")

\* C23: the content-dedup map is swept on every call of n8n_main_request:
\* when a call has been answered, a duplicate and an empty message
\* included, the map holds no entry older than 10 seconds.
C23_SweptOnEveryCall ==
    [][lastCall' # lastCall
       => \A k \in RequestKeys :
             request_cache'[k] # NoTime => now - request_cache'[k] <= DedupKeep]_vars

\* C24: a check_agent_match call with a non-basic query for an agent that
\* has documents, whose embedding and lookup did not fail, returns
\* match = (similarity >= the threshold of this call) and confidence =
\* similarity, the similarity being the score of the best document and 0
\* when there is none.  A call served from the cache is looked at when the
\* entry was computed for its own agent and query.
C24_MatchIsSimilarityAtLeastThreshold ==
    (/\ lastMatch.t # NoTime
     /\ lastMatch.docs = "has"
     /\ \/ lastMatch.how = "computed"
        \/ /\ lastMatch.how = "cache"
           /\ lastMatch.since # NoTime
           /\ lastMatch.sinceRet = lastMatch.ret
     /\ ~IsBasic(lastMatch.x[2]))
    => lastMatch.ret.match = (lastMatch.ret.confidence >= lastMatch.threshold)

(***************************************************************************)
(* Claims about the ranking of find_best_agents                            *)
(***************************************************************************)
\* the agents named by the candidates, and the best candidate of an agent
AgentsOf(rows) == {rows[i].agent_name : i \in 1..Len(rows)}
BestOf(rows, agent) ==
    CHOOSE v \in {rows[i].similarity : i \in {j \in 1..Len(rows) : rows[j].agent_name = agent}} :
        \A i \in 1..Len(rows) : rows[i].agent_name = agent => rows[i].similarity <= v
Smaller(a, b) == IF a < b THEN a ELSE b

\* C25: when the similarity service returns at least one candidate,
\* find_best_agents returns a list that names no agent twice, gives each
\* agent the greatest similarity (times 100) among its candidates, is
\* ordered by non-increasing score and holds at most top_n entries: the
\* top_n best agents, or all of them when they are fewer.
C25_MaxPerAgentSortedTopN ==
    (lastBest.how = "computed" /\ lastBest.rows # << >>)
    => LET ret == lastBest.ret
           rows == lastBest.rows
       IN /\ \A i, j \in 1..Len(ret) : ret[i][1] = ret[j][1] => i = j
          /\ \A i \in 1..Len(ret) :
                /\ ret[i][1] \in AgentsOf(rows)
                /\ ret[i][2] = 10 * BestOf(rows, ret[i][1])
          /\ \A i, j \in 1..Len(ret) : i < j => ret[i][2] >= ret[j][2]
          /\ Len(ret) <= lastBest.top_n
          /\ Len(ret) = Smaller(lastBest.top_n, Cardinality(AgentsOf(rows)))
          /\ \A a \in AgentsOf(rows) :
                (\A i \in 1..Len(ret) : ret[i][1] # a)
                => \A i \in 1..Len(ret) : ret[i][2] >= 10 * BestOf(rows, a)

\* two candidates of two agents came in ascending order and were returned
\* best first
C25_Witness ==
    /\ lastBest.how = "computed"
    /\ lastBest.top_n = 2
    /\ lastBest.rows = <<[agent_name |-> "leadgenkb", similarity |-> 35],
                         [agent_name |-> "presaleskb", similarity |-> 80]>>
    /\ lastBest.ret = << <<"presaleskb", 800>>, <<"leadgenkb", 350>> >>

(***************************************************************************)
(* Claims about the receive loop of the socket gateway                     *)
(***************************************************************************)
\* C26: a payload that is not valid JSON drops only that frame: no frame is
\* sent in answer, no task is dispatched, the in-flight set and the
\* registry are as before, the keepalive is as before, and the handler is
\* back at the top of its receive loop.
C26_MalformedFrameDropsOnlyItself ==
    [][\A c \in Conns :
          (/\ lastFrame' = [c |-> c, what |-> "malformed"]
           /\ \/ lastFrame' # lastFrame
              \/ run'[c] # run[c] /\ run'[c] = NoRun)
          => (/\ pc[c] = "loop" /\ pc' = pc
              /\ sock' = sock
              /\ active_connections' = active_connections
              /\ active_requests' = active_requests
              /\ ka' = ka
              /\ tasks' = tasks
              /\ pings' = pings
              /\ run'[c].acks = 0
              /\ exitCause' = exitCause)]_vars

\* connection A, registered and with its keepalive asleep, got an
\* undecodable frame while a task it dispatched was running
C26_Witness ==
    /\ lastFrame = [c |-> "A", what |-> "malformed"]
    /\ pc["A"] = "loop"
    /\ active_connections[ConnectionId("A")] = "A"
    /\ ka["A"] = "sleeping"
    /\ tasks["A"]["r1"] = 1

\* C27: when a read times out after 60 s the handler sends a probe ping; if
\* the send succeeds the connection stays open and registered, its
\* keepalive goes on and the handler is back at the top of its loop; if the
\* send fails the handler leaves the loop and the teardown runs: the
\* keepalive is cancelled and the registry entry of the connection's id is
\* removed.
C27_IdleProbeKeepsOrTearsDown ==
    [][\A c \in Conns :
          /\ (lastFrame' = [c |-> c, what |-> "idle"] /\ pings'[c] # pings[c])
             => (/\ sock[c] = "open"
                 /\ pc' = pc /\ sock' = sock
                 /\ active_connections' = active_connections
                 /\ ka' = ka /\ exitCause' = exitCause)
          /\ (/\ lastFrame' = [c |-> c, what |-> "idle"]
              /\ lastFrame' # lastFrame
              /\ sock[c] # "open")
             => exitCause'[c] = "dead_peer"
          /\ (exitCause'[c] = "dead_peer" /\ exitCause[c] # "dead_peer")
             => (/\ lastFrame' = [c |-> c, what |-> "idle"]
                 /\ sock[c] # "open"
                 /\ pings' = pings
                 /\ pc'[c] = "closed"
                 /\ ka'[c] # "sleeping"
                 /\ active_connections'[ConnectionId(c)] = NoConn)]_vars

\* the peer of connection A went silent after a ping had reached it: the
\* probe failed and the connection was torn down
C27_Witness ==
    /\ lastFrame = [c |-> "A", what |-> "idle"]
    /\ exitCause["A"] = "dead_peer"
    /\ pings["A"] = 1
    /\ pc["A"] = "closed"
    /\ ka["A"] = "cancelled"
    /\ active_connections[ConnectionId("A")] = NoConn

\* C28: for a business frame that is not suppressed the ack carrying its
\* requestId is sent before its processing task is created: a task is
\* created only by the step that sends that ack, only when the send
\* succeeds, and exactly one task per acknowledged frame; after it the
\* handler is back at the top of its loop while the task is still running.
C28_AckThenDispatchThenNextFrame ==
    [][\A c \in Conns, r \in RequestIds :
          /\ tasks'[c][r] > tasks[c][r]
             => (/\ pc[c] = "acking" /\ cur[c] = r /\ run[c].rid = r
                 /\ sock[c] = "open"
                 /\ run'[c].acks = run[c].acks + 1
                 /\ tasks'[c][r] = tasks[c][r] + 1
                 /\ pc'[c] = "loop")
          /\ (pc[c] = "acking" /\ pc'[c] # "acking" /\ sock[c] # "open")
             => (tasks' = tasks /\ run'[c].acks = run[c].acks)
          /\ (/\ pc[c] = "acking" /\ pc'[c] # "acking"
              /\ sock[c] = "open" /\ cur[c] = r)
             => (tasks'[c][r] = tasks[c][r] + 1 /\ pc'[c] = "loop")]_vars

\* connection A has read a second business frame and is about to
\* acknowledge it while the task of its first frame is still running
C28_Witness ==
    /\ tasks["A"]["r1"] = 1
    /\ pc["A"] = "acking"
    /\ cur["A"] = "r1"
    /\ run["A"].n = 2
    /\ run["A"].acks = 1
    /\ sock["A"] = "open"

\* C29: the teardown of a connection cancels its keepalive task and nothing
\* else: the processing tasks dispatched by any connection, the closing one
\* included, are as many after the teardown as before it (neither cancelled
\* nor awaited: the teardown does not wait for them to end), and no other
\* connection's keepalive is touched.
C29_TeardownLeavesTasksRunning ==
    [][\A c \in Conns :
          (pc[c] # "closed" /\ pc'[c] = "closed")
          => (/\ tasks' = tasks
              /\ ka[c] = "sleeping" => ka'[c] = "cancelled"
              /\ \A d \in Conns \ {c} : ka'[d] = ka[d])]_vars

\* connection A was torn down while two of its processing tasks were
\* still running
C29_Witness ==
    /\ pc["A"] = "closed"
    /\ ka["A"] = "cancelled"
    /\ tasks["A"]["r1"] = 2

\* C30: every progress event that receive_stream_update receives is
\* appended at the end of the log of the session keyed by its (user_id,
\* request_id), and of no other session, whether no connection is
\* registered for it, the forward fails or the forward succeeds; a session
\* exists from its first event on, and its complete flag is set exactly
\* when its log holds an event of type "complete" or "final".
C30_EveryEventLoggedInOrder ==
    [][/\ streaming_sessions' # streaming_sessions
          => \E u \in Updates :
                /\ streaming_sessions'[SessionKey(u)].updates =
                      Append(streaming_sessions[SessionKey(u)].updates, u)
                /\ \A k \in SessionKeys \ {SessionKey(u)} :
                      streaming_sessions'[k] = streaming_sessions[k]
                /\ \/ fin'.ev = u
                   \/ \E h \in hs' : h.clean /\ h.ev = u
       /\ fin' # fin
          => \/ streaming_sessions'[SessionKey(fin'.ev)].updates =
                   Append(streaming_sessions[SessionKey(fin'.ev)].updates, fin'.ev)
             \/ /\ streaming_sessions' = streaming_sessions
                /\ \E h \in hs : h.ev = fin'.ev /\ h.ws = fin'.ws
       /\ \A h \in hs' \ hs :
             h.clean
             => streaming_sessions'[SessionKey(h.ev)].updates =
                   Append(streaming_sessions[SessionKey(h.ev)].updates, h.ev)
       /\ \A k \in SessionKeys :
             /\ streaming_sessions'[k].exists
                   = (streaming_sessions'[k].updates # << >>)
             /\ streaming_sessions'[k].complete
                   = (\E i \in DOMAIN streaming_sessions'[k].updates :
                         streaming_sessions'[k].updates[i].type
                            \in {"complete", "final"})]_vars

\* a "final" event arrived after a "progress" event of the same session
\* while the registered peer was unreachable: the forward failed, the
\* event is the second of the log and the session is complete
C30_Witness ==
    /\ fin.result = "error" /\ fin.out = << >> /\ fin.ws # NoConn
    /\ fin.ev.type = "final"
    /\ streaming_sessions[SessionKey(fin.ev)].exists
    /\ streaming_sessions[SessionKey(fin.ev)].complete
    /\ Len(streaming_sessions[SessionKey(fin.ev)].updates) = 2
    /\ streaming_sessions[SessionKey(fin.ev)].updates[1].type = "progress"
    /\ streaming_sessions[SessionKey(fin.ev)].updates[2] = fin.ev

\* C31: the agent_response frame follows its status frame immediately: when
\* a receive_stream_update call sends the agent_response frame of a terminal
\* event, no other frame (of another progress event, a keepalive ping, the
\* connection_status frame) has gone out on that socket since the call sent
\* the status frame of the same event.
C31_AnswerRightAfterStatus ==
    [][\A h \in hs :
          (/\ h \notin hs'
           /\ [h EXCEPT !.clean = FALSE] \notin hs'
           /\ sock[h.ws] = "open")
          => h.clean]_vars

\* C32: when the 25 s deadline of full_website_analysis expires, a subtask
\* that was unfinished is not cancelled: it is still running after the
\* handler has ended, and the handler has returned a response that reports
\* it with the timeout placeholder.
C32_DeadlineAbandonsWithoutCancelling ==
    \A s \in SubtaskNames :
       (phase = "done" /\ atDeadline[s] = "running")
       => (/\ sub[s].st = "running"
           /\ results.kind = "returned"
           /\ results.entries[s] = [status |-> "timeout", payload |-> "none"])

\* C33: the record of a background task carries the aggregate
\* overall_status and the status "complete" only when none of its three
\* subtask entries is "pending"; while a subtask is unresolved the record,
\* and every poll answer read from it, has status "started" and no
\* aggregate.
C33_AggregateOnlyWhenAllResolved ==
    /\ (background_results.status = "complete"
        \/ background_results.overall_status # "none")
       => (/\ background_results.status = "complete"
           /\ background_results.overall_status \in {"success", "partial_success"}
           /\ \A s \in SubtaskNames :
                 /\ background_results.entries[s].status # "pending"
                 /\ bgSub[s].st = "done")
    /\ (\E s \in SubtaskNames : bgSub[s].st = "running")
       => (/\ background_results.status = "started"
           /\ background_results.overall_status = "none")
    /\ (lastPoll.kind = "found"
        /\ \E s \in SubtaskNames : lastPoll.record.entries[s].status = "pending")
       => (/\ lastPoll.record.status = "started"
           /\ lastPoll.record.overall_status = "none")

\* the record is complete with a failed subtask, and the poll made before
\* had found the analysis written and the favicon still pending
C33_Witness ==
    /\ bgPhase = "complete"
    /\ background_results.status = "complete"
    /\ background_results.overall_status = "partial_success"
    /\ lastPoll.kind = "found"
    /\ lastPoll.record.status = "started"
    /\ lastPoll.record.entries["analysis"].status = "success"
    /\ lastPoll.record.entries["favicon"].status = "pending"

C35_TeardownRemovesOwnEntryOnly ==
    [][\A c \in Conns : \A d \in Conns \ {c} :
          (/\ pc[c] # "closed" /\ pc'[c] = "closed"
           /\ ConnectionId(d) = ConnectionId(c)
           /\ active_connections[ConnectionId(c)] = d
           /\ pc[d] \in {"opening", "loop", "acking"})
          => active_connections'[ConnectionId(c)] = d]_vars

\* C36: a keepalive task sends a ping only while its own socket is the one
\* registered under its connection_id: once the entry holds the socket of a
\* newer connection, the task of the older connection sends no ping on the
\* older socket. (A ping that is no read-timeout probe of the handler is a
\* ping of the keepalive task.)
C36_KeepaliveOnlyWhileOwnSocketRegistered ==
    [][\A c \in Conns :
          (pings'[c] # pings[c] /\ lastFrame' # [c |-> c, what |-> "idle"])
          => active_connections[ConnectionId(c)] = c]_vars

\* C37: the duplicate suppression of one connection does not depend on the
\* other connections: a business frame read on a connection while a frame
\* with the same requestId is being handled on another connection is not
\* dropped, it goes on to its ack and dispatch.
C37_SuppressionPerConnection ==
    [][\A c \in Conns : \A r \in RequestIds :
          (/\ pc[c] = "loop"
           /\ run'[c] # run[c] /\ run'[c].rid = r
           /\ \E d \in Conns \ {c} : pc[d] = "acking" /\ cur[d] = r)
          => (pc'[c] = "acking" /\ cur'[c] = r)]_vars

\* C38: n8n_main_request evaluates the content-dedup check before the
\* response cache: a call with a non-blank message whose key was entered
\* less than 2 seconds before is answered with the duplicate
\* acknowledgment, whether or not its request_id has a cached response, and
\* a call is answered with the cached response only when the dedup check
\* does not fire.
C38_DedupBeforeResponseCache ==
    [][(lastCall' # lastCall /\ Strip(lastCall'.x[2]) # << >>)
       => LET key == RequestKey(lastCall'.x[1], lastCall'.x[2], lastCall'.x[3])
              fires == /\ request_cache[key] # NoTime
                       /\ now - request_cache[key] < DedupWindow
          IN /\ fires => lastCall'.reply = "duplicate"
             /\ lastCall'.reply = "cached" => ~fires]_vars

\* a call was answered as a duplicate at a time when every request_id had
\* a cached response that had not expired
C38_Witness ==
    /\ lastCall.reply = "duplicate"
    /\ lastCall.t = now
    /\ \A r \in HttpRequestIds :
          responses[r].present /\ now - responses[r].timestamp < ResponseTtl

\* C39: the 2-second window is measured from the last call with the key
\* that passed the dedup check: a call answered as a duplicate leaves the
\* key's timestamp as it was, so the next call with that content, arriving
\* 2 seconds or more after the last one that passed, passes the dedup check
\* itself even though the duplicate was seen less than 2 seconds before.
C39_DuplicateDoesNotRefreshWindow ==
    [][/\ (lastCall' # lastCall /\ lastCall'.reply = "duplicate")
          => request_cache' = request_cache
       /\ (/\ lastCall' # lastCall
           /\ lastCall.reply = "duplicate"
           /\ lastCall'.x = lastCall.x
           /\ lastCall'.t - lastCall.accT >= DedupWindow)
          => lastCall'.reply \in {"cached", "forwarded"}]_vars

\* a call was answered as a duplicate 1 second after the call that had
\* passed, the key's timestamp is still that of the call that passed, and
\* the clock has reached 2 seconds after it
C39_Witness ==
    /\ lastCall.reply = "duplicate"
    /\ lastCall.accT = 0
    /\ lastCall.t = 1
    /\ now = 2
    /\ request_cache[RequestKey(lastCall.x[1], lastCall.x[2], lastCall.x[3])] = 0

\* C40: handle_message caches the error result of process_message: after a
\* failure of the workflow engine for a request_id, every handle_message
\* call with that request_id made less than 300 s after the failure returns
\* a status "error" result without calling the workflow engine (the cached
\* result, or for a blank message the empty-message error).
C40_ErrorResultIsReplayed ==
    [][(/\ lastHandle' # lastHandle
        /\ engineEnds[lastHandle'.rid].failT # NoTime
        /\ now - engineEnds[lastHandle'.rid].failT < ResponseTtl)
       => (/\ lastHandle'.how \in {"cached", "empty"}
           /\ lastHandle'.ret.status = "error"
           /\ lastHandle'.posts = 0
           /\ suspended' = suspended)]_vars

====
